---- MODULE Spec2Model ----
(***************************************************************************)
(* Model of src/src/pages/ChatPage.tsx: the stream tokenizer               *)
(* parseJSONStream and the chat turn handled by handleSendMessage,         *)
(* handleCancelRequest and the beforeunload handler of ChatPage.           *)
(*                                                                         *)
(* Text is a sequence of one-character strings.  A JavaScript value is a   *)
(* record [k, s, m]: k is the kind ("str", "num", "obj", "undefined"), s   *)
(* the characters of a string or the digits of a number, m the members of  *)
(* an object as a sequence of <<key, value>> pairs in source order.        *)
(***************************************************************************)
EXTENDS Integers, Sequences, FiniteSets

(***************************************************************************)
(* JavaScript values                                                       *)
(***************************************************************************)
JSUndefined == [k |-> "undefined", s |-> <<>>, m |-> <<>>]

JSString(chars) == [k |-> "str", s |-> chars, m |-> <<>>]

JSNumber(digits) == [k |-> "num", s |-> digits, m |-> <<>>]

JSObject(members) == [k |-> "obj", s |-> <<>>, m |-> members]

\* Property read obj[key]: the last member of that name, undefined if none.
RECURSIVE GetFrom(_, _, _)
GetFrom(members, key, i) ==
  IF i = 0 THEN JSUndefined
  ELSE IF members[i][1] = key THEN members[i][2]
  ELSE GetFrom(members, key, i - 1)

Get(obj, key) ==
  IF obj.k = "obj" THEN GetFrom(obj.m, key, Len(obj.m)) ELSE JSUndefined

\* ToString(v) of ECMAScript, as applied by the += of a string and a value.
JSToString(v) ==
  CASE v.k = "str" -> v.s
    [] v.k = "num" -> v.s
    [] v.k = "obj" ->
         <<"[", "o", "b", "j", "e", "c", "t", " ", "O", "b", "j", "e", "c", "t", "]">>
    [] OTHER -> <<"u", "n", "d", "e", "f", "i", "n", "e", "d">>

(***************************************************************************)
(* JSON.parse, for texts made of objects, strings, unsigned integers and   *)
(* white space.  Any other character outside a string is a syntax error;   *)
(* the texts explored never spell an array, a literal (true, false, null), *)
(* a sign, a fraction, an exponent or a \u escape.                         *)
(***************************************************************************)
Whitespace == {" ", "\n", "\t", "\r"}

Digits == {"0", "1", "2", "3", "4", "5", "6", "7", "8", "9"}

SimpleEscapes == {"\"", "\\", "/", "b", "f", "n", "r", "t"}

Unescape(c) ==
  CASE c = "n" -> "\n"
    [] c = "t" -> "\t"
    [] c = "r" -> "\r"
    [] c = "f" -> "\f"
    [] c = "b" -> "BS"
    [] OTHER -> c

ParseFail == [ok |-> FALSE, val |-> JSUndefined, pos |-> 0]

RECURSIVE SkipWs(_, _)
SkipWs(s, i) ==
  IF i <= Len(s) /\ s[i] \in Whitespace THEN SkipWs(s, i + 1) ELSE i

\* The characters of a string literal whose opening quote is before position i.
RECURSIVE ParseChars(_, _, _)
ParseChars(s, i, acc) ==
  IF i > Len(s) THEN ParseFail
  ELSE IF s[i] = "\"" THEN [ok |-> TRUE, val |-> JSString(acc), pos |-> i + 1]
  ELSE IF s[i] = "\\" THEN
    IF i + 1 <= Len(s) /\ s[i + 1] \in SimpleEscapes
    THEN ParseChars(s, i + 2, Append(acc, Unescape(s[i + 1])))
    ELSE ParseFail
  ELSE IF s[i] \in {"\n", "\t", "\r"} THEN ParseFail
  ELSE ParseChars(s, i + 1, Append(acc, s[i]))

RECURSIVE ParseDigits(_, _, _)
ParseDigits(s, i, acc) ==
  IF i <= Len(s) /\ s[i] \in Digits
  THEN ParseDigits(s, i + 1, Append(acc, s[i]))
  ELSE [ok |-> TRUE, val |-> JSNumber(acc), pos |-> i]

ParseNumber(s, i) ==
  IF s[i] = "0" THEN [ok |-> TRUE, val |-> JSNumber(<<"0">>), pos |-> i + 1]
  ELSE ParseDigits(s, i, <<>>)

RECURSIVE ParseValue(_, _)
RECURSIVE ParseMembers(_, _, _)

\* A value starting at position i (white space before it already skipped).
ParseValue(s, i) ==
  IF i > Len(s) THEN ParseFail
  ELSE IF s[i] = "{" THEN
    LET j == SkipWs(s, i + 1) IN
      IF j <= Len(s) /\ s[j] = "}"
      THEN [ok |-> TRUE, val |-> JSObject(<<>>), pos |-> j + 1]
      ELSE ParseMembers(s, j, <<>>)
  ELSE IF s[i] = "\"" THEN ParseChars(s, i + 1, <<>>)
  ELSE IF s[i] \in Digits THEN ParseNumber(s, i)
  ELSE ParseFail

\* The members of an object from position i, where a key must start.
ParseMembers(s, i, acc) ==
  IF i > Len(s) \/ s[i] # "\"" THEN ParseFail
  ELSE
    LET key == ParseChars(s, i + 1, <<>>) IN
      IF ~key.ok THEN ParseFail
      ELSE
        LET c == SkipWs(s, key.pos) IN
          IF c > Len(s) \/ s[c] # ":" THEN ParseFail
          ELSE
            LET v == ParseValue(s, SkipWs(s, c + 1)) IN
              IF ~v.ok THEN ParseFail
              ELSE
                LET e == SkipWs(s, v.pos)
                    mem == Append(acc, <<key.val.s, v.val>>)
                IN
                  IF e > Len(s) THEN ParseFail
                  ELSE IF s[e] = "}"
                  THEN [ok |-> TRUE, val |-> JSObject(mem), pos |-> e + 1]
                  ELSE IF s[e] = ","
                  THEN ParseMembers(s, SkipWs(s, e + 1), mem)
                  ELSE ParseFail

\* JSON.parse(text): ok is FALSE where JSON.parse throws a SyntaxError.
JSONParse(s) ==
  LET r == ParseValue(s, SkipWs(s, 1)) IN
    IF r.ok /\ SkipWs(s, r.pos) = Len(s) + 1
    THEN [ok |-> TRUE, val |-> r.val]
    ELSE [ok |-> FALSE, val |-> JSUndefined]

(***************************************************************************)
(* parseJSONStream                                                         *)
(***************************************************************************)
\* s.substring(from) for 0-based from, on 1-based sequences.
Substring(s, from, to) == SubSeq(s, from + 1, to)

\* Mutant of PushParsed: a candidate that fails to parse leaves an entry.
PushParsedKeepsFailed(parsed, jsonStr) ==
  LET r == JSONParse(jsonStr) IN Append(parsed, r.val)

\* The try/catch around JSON.parse: push the object, or drop the candidate.
PushParsed(parsed, jsonStr) ==
  LET r == JSONParse(jsonStr) IN
    IF r.ok THEN Append(parsed, r.val) ELSE parsed

\* The state of the scan: the loop index i (0-based) and the locals.
ScanInit ==
  [i |-> 0, depth |-> 0, start |-> 0, inString |-> FALSE, escaped |-> FALSE,
   parsed |-> <<>>]

\* Mutant of ScanStep: the escape flag is never set, so the character after
\* a backslash is examined like any other.
ScanStepNoEscape(remaining, st) ==
  LET char == remaining[st.i + 1]
      next == [st EXCEPT !.i = st.i + 1]
  IN
    CASE char = "\"" -> [next EXCEPT !.inString = ~st.inString]
      [] char # "\"" /\ st.inString -> next
      [] ~st.inString /\ char = "{" -> [next EXCEPT !.depth = st.depth + 1]
      [] ~st.inString /\ char = "}" ->
           IF st.depth - 1 = 0
           THEN [next EXCEPT
                   !.depth = 0,
                   !.parsed = PushParsed(st.parsed,
                                         Substring(remaining, st.start, st.i + 1)),
                   !.start = st.i + 1]
           ELSE [next EXCEPT !.depth = st.depth - 1]
      [] OTHER -> next

\* One iteration of the for loop, on the character at index st.i.
ScanStep(remaining, st) ==
  LET char == remaining[st.i + 1]
      next == [st EXCEPT !.i = st.i + 1]
  IN
    CASE st.escaped -> [next EXCEPT !.escaped = FALSE]
      [] ~st.escaped /\ char = "\\" -> [next EXCEPT !.escaped = TRUE]
      [] ~st.escaped /\ char = "\"" -> [next EXCEPT !.inString = ~st.inString]
      [] ~st.escaped /\ char \notin {"\\", "\""} /\ st.inString -> next
      [] ~st.escaped /\ ~st.inString /\ char = "{" ->
           [next EXCEPT !.depth = st.depth + 1]
      [] ~st.escaped /\ ~st.inString /\ char = "}" ->
           IF st.depth - 1 = 0
           THEN [next EXCEPT
                   !.depth = 0,
                   !.parsed = PushParsed(st.parsed,
                                         Substring(remaining, st.start, st.i + 1)),
                   !.start = st.i + 1]
           ELSE [next EXCEPT !.depth = st.depth - 1]
      [] OTHER -> next

\* At most n iterations of the loop (the loop is run in short stretches to
\* keep the evaluation shallow).
RECURSIVE ScanRun(_, _, _)
ScanRun(remaining, st, n) ==
  IF n = 0 \/ st.i >= Len(remaining) THEN st
  ELSE ScanRun(remaining, ScanStep(remaining, st), n - 1)

\* The for loop: iterate until i reaches remaining.length.
RECURSIVE ScanLoop(_, _)
ScanLoop(remaining, st) ==
  IF st.i >= Len(remaining) THEN st
  ELSE ScanLoop(remaining, ScanRun(remaining, st, 16))

parseJSONStream(buffer) ==
  LET r == ScanLoop(buffer, ScanInit) IN
    [parsed |-> r.parsed, remaining |-> Substring(buffer, r.start, Len(buffer))]

(***************************************************************************)
(* Bounds of the exploration                                               *)
(***************************************************************************)
\* Turns started in one behaviour.
MaxTurns == 2
MaxOverlapTurns == 3

\* Milliseconds that may pass between two sends.
MaxElapsed == 2

\* Attachments held at once.
MaxFiles == 1

\* Notifications recorded.
MaxToasts == 4

\* The network cuts a response body at multiples of this many characters.
ChunkUnit == 32

\* Fragments concatenated into a tokenizer input.
MaxFrags == 3

(***************************************************************************)
(* The generation service (environment): response bodies are concatenated  *)
(* JSON objects with no delimiter.  Serialize writes a value as JSON text. *)
(***************************************************************************)
RECURSIVE Flatten(_)
Flatten(seqs) ==
  IF seqs = <<>> THEN <<>> ELSE Head(seqs) \o Flatten(Tail(seqs))

RECURSIVE EscapeChars(_)
EscapeChars(chars) ==
  IF chars = <<>> THEN <<>>
  ELSE (IF Head(chars) \in {"\"", "\\"} THEN <<"\\", Head(chars)>> ELSE <<Head(chars)>>)
       \o EscapeChars(Tail(chars))

Quote(chars) == <<"\"">> \o EscapeChars(chars) \o <<"\"">>

RECURSIVE Serialize(_)
RECURSIVE SerializeMembers(_, _)
Serialize(v) ==
  CASE v.k = "str" -> Quote(v.s)
    [] v.k = "num" -> v.s
    [] OTHER -> <<"{">> \o SerializeMembers(v.m, 1) \o <<"}">>

SerializeMembers(members, i) ==
  IF i > Len(members) THEN <<>>
  ELSE Quote(members[i][1]) \o <<":">> \o Serialize(members[i][2])
       \o (IF i < Len(members) THEN <<",">> ELSE <<>>)
       \o SerializeMembers(members, i + 1)

TypeKey == <<"t", "y", "p", "e">>

DataKey == <<"d", "a", "t", "a">>

TypeReasoning == <<"r", "e", "a", "s", "o", "n", "i", "n", "g">>

TypeContent == <<"c", "o", "n", "t", "e", "n", "t">>

TypeMetadata == <<"m", "e", "t", "a", "d", "a", "t", "a">>

TypePing == <<"p", "i", "n", "g">>

WireEvent(type, data) ==
  JSObject(<< <<TypeKey, JSString(type)>>, <<DataKey, data>> >>)

Usage(n) ==
  JSObject(<< <<<<"t", "o", "t", "a", "l", "_", "t", "o", "k", "e", "n", "s">>,
               JSNumber(<<n>>)>> >>)

\* An item of a body: its text, and the object it carries (ev) when it is a
\* complete well-formed object (valid).
Item(v) == [text |-> Serialize(v), valid |-> TRUE, ev |-> v]

Junk(text) == [text |-> text, valid |-> FALSE, ev |-> JSUndefined]

BadObject == Junk(<<"{", "b", "a", "d", "}">>)

CutObject == Junk(<<"{", "\"", "t", "y", "p", "e", "\"", ":", "\"", "c", "o">>)

Scripts ==
  << \* content and metadata events only
     << Item(WireEvent(TypeContent, JSString(<<"H", "i">>))),
        Item(WireEvent(TypeMetadata, Usage("5"))),
        Item(WireEvent(TypeContent, JSString(<<" ", "}">>))),
        Item(WireEvent(TypeMetadata, Usage("7"))) >>,
     \* reasoning and content, a malformed object, an unknown type, a cut-off tail
     << Item(WireEvent(TypeReasoning, JSString(<<"r">>))),
        Item(WireEvent(TypeContent, JSString(<<"a">>))),
        BadObject,
        Item(WireEvent(TypeReasoning, JSString(<<"{", "\"">>))),
        Item(WireEvent(TypePing, JSString(<<"x">>))),
        Item(WireEvent(TypeContent, JSString(<<"b">>))),
        CutObject >> >>

ItemTexts(items) == [i \in 1..Len(items) |-> items[i].text]

\* The whole response body of script sc (none before the response arrives).
Body(sc) == IF sc = 0 THEN <<>> ELSE Flatten(ItemTexts(Scripts[sc]))

(***************************************************************************)
(* State of ChatPage                                                       *)
(***************************************************************************)
VARIABLES
  now,                \* the last value read from Date.now()
  token,              \* useAuth().token: TRUE when a credential is present
  selectedModel,      \* useState('')
  availableModels,    \* useState<Model[]>([])
  messages,           \* useState<Message[]>([])
  inputValue,         \* useState('')
  uploadedFiles,      \* useState<UploadedFile[]>([]), the kinds of the files
  isLoading,          \* useState(false)
  abortControllerRef, \* 0 for null, else the turn whose AbortController it holds
  toasts,             \* the notifications raised by toast(...)
  turns,              \* the invocations of handleSendMessage that went past validation
  tokFrags,           \* tokenizer runs: the fragments of the input text
  tokRest,            \* tokenizer runs: the text not yet fed
  tokBuffer,          \* tokenizer runs: the carried remainder (buffer)
  tokEmitted,         \* tokenizer runs: the parsed objects so far
  tokCarried          \* tokenizer runs: a chunk was fed onto a non-empty remainder

chatVars ==
  <<now, token, selectedModel, availableModels, messages, inputValue,
    uploadedFiles, isLoading, abortControllerRef, toasts, turns>>

tokVars == <<tokFrags, tokRest, tokBuffer, tokEmitted, tokCarried>>

vars == <<chatVars, tokVars>>

CancelNotice ==
  <<"\n", "\n", "*", "R", "e", "s", "p", "o", "n", "s", "e", " ", "w", "a", "s", " ",
    "c", "a", "n", "c", "e", "l", "l", "e", "d", "*">>

\* "Sorry, I encountered an error while processing your request. Please try again."
ErrorContent == <<"S", "o", "r", "r", "y", ",", " ", "e", "r", "r", "o", "r">>

\* String.prototype.trim
RECURSIVE TrimStart(_)
TrimStart(s) ==
  IF s # <<>> /\ Head(s) \in Whitespace THEN TrimStart(Tail(s)) ELSE s

RECURSIVE TrimEnd(_)
TrimEnd(s) ==
  IF s # <<>> /\ s[Len(s)] \in Whitespace THEN TrimEnd(SubSeq(s, 1, Len(s) - 1)) ELSE s

Trim(s) == TrimEnd(TrimStart(s))

\* What the user can type into the textarea.
Inputs == {<<>>, <<" ">>, <<"h", "i">>}

\* availableModels.find(m => m.id === selectedModel)?.isReasoning || false
RECURSIVE FindModel(_, _, _)
FindModel(models, id, i) ==
  IF i > Len(models) THEN [found |-> FALSE, isReasoning |-> FALSE]
  ELSE IF models[i].id = id THEN [found |-> TRUE, isReasoning |-> models[i].isReasoning]
  ELSE FindModel(models, id, i + 1)

IsReasoningModel(models, id) ==
  LET m == FindModel(models, id, 1) IN m.found /\ m.isReasoning

\* toast({...}), recorded up to MaxToasts notifications.
Toast(title, description) ==
  IF Len(toasts) < MaxToasts
  THEN Append(toasts, [title |-> title, description |-> description])
  ELSE toasts

\* A started invocation of handleSendMessage with its locals; pc is the await
\* it is suspended at ("fetch", "text", "read") or "ended".  script and sent
\* are the response body the service sends and the characters received so far.
\* History, not read by the code: reasoningCompleteUpdates counts the runs of
\* the update of lines 303-309, cancelled records an abort made by
\* handleCancelRequest, outcome how the invocation ended.
NewTurn(aiMessageId, isReasoningModel) ==
  [pc |-> "fetch", aborted |-> FALSE, aiMessageId |-> aiMessageId,
   isReasoningModel |-> isReasoningModel, script |-> 0, sent |-> 0,
   buffer |-> <<>>, accumulatedContent |-> <<>>, accumulatedReasoning |-> <<>>,
   isReasoningPhase |-> isReasoningModel, reasoningCompleteUpdates |-> 0,
   cancelled |-> FALSE, outcome |-> "running"]

\* A turn whose invocation has returned: its locals are gone.
EndTurn(t, outcome) ==
  [t EXCEPT !.pc = "ended", !.outcome = outcome, !.sent = 0, !.buffer = <<>>,
            !.accumulatedContent = <<>>, !.accumulatedReasoning = <<>>,
            !.script = IF outcome = "complete" THEN @ ELSE 0]

\* abort() rejects the promise the invocation awaits, and the continuation
\* (catch, finally) waits in the microtask queue.  No network event, which is
\* a task of its own, runs before it; a handler does when its event is
\* dispatched before the microtask checkpoint (events dispatched one after
\* the other by a script: React renders after each discrete event, so the
\* next handler sees the state the previous one set).
MicrotaskPending ==
  \E t \in 1..Len(turns) : turns[t].pc # "ended" /\ turns[t].aborted

InitChat ==
  /\ now = 0
  /\ token \in BOOLEAN
  /\ selectedModel = ""
  /\ availableModels = <<>>
  /\ messages = <<>>
  /\ inputValue = <<>>
  /\ uploadedFiles = <<>>
  /\ isLoading = FALSE
  /\ abortControllerRef = 0
  /\ toasts = <<>>
  /\ turns = <<>>

InitTokIdle ==
  /\ tokFrags = <<>>
  /\ tokRest = <<>>
  /\ tokBuffer = <<>>
  /\ tokEmitted = <<>>
  /\ tokCarried = FALSE

Init == InitChat /\ InitTokIdle

(***************************************************************************)
(* User events                                                             *)
(***************************************************************************)
\* onChange of the textarea, which is disabled while isLoading.
SetInputValue(v) ==
  /\ ~isLoading
  /\ v # inputValue
  /\ inputValue' = v
  /\ UNCHANGED <<now, token, selectedModel, availableModels, messages, uploadedFiles,
                 isLoading, abortControllerRef, toasts, turns, tokVars>>

handleFileAdded(kind) ==
  /\ Len(uploadedFiles) < MaxFiles
  /\ uploadedFiles' = Append(uploadedFiles, kind)
  /\ UNCHANGED <<now, token, selectedModel, availableModels, messages, inputValue,
                 isLoading, abortControllerRef, toasts, turns, tokVars>>

\* Mutant of SendGuardFails: an empty input is not refused.
SendGuardIgnoresEmpty == isLoading

\* The guard of line 194: return without doing anything.
SendGuardFails == (Trim(inputValue) = <<>> /\ uploadedFiles = <<>>) \/ isLoading

UserMessage(t) ==
  [id |-> t, content |-> inputValue, role |-> "user", timestamp |-> t,
   isStreaming |-> FALSE, reasoning |-> JSUndefined, isReasoningComplete |-> FALSE,
   metadata |-> JSUndefined]

AiMessage(t, isReasoningModel) ==
  [id |-> t + 1, content |-> <<>>, role |-> "assistant", timestamp |-> t,
   isStreaming |-> TRUE,
   reasoning |-> IF isReasoningModel THEN JSString(<<>>) ELSE JSUndefined,
   isReasoningComplete |-> FALSE, metadata |-> JSUndefined]

\* handleSendMessage up to its first await (lines 193-263).  t1 and t2 are the
\* values of Date.now() at lines 206 and 220; cap bounds the number of turns.
handleSendMessageWithin(cap, t1, t2) ==
  /\ \/ /\ SendGuardFails
        /\ UNCHANGED <<now, token, selectedModel, availableModels, messages, inputValue,
                       uploadedFiles, isLoading, abortControllerRef, toasts, turns>>
     \/ /\ ~SendGuardFails
        /\ ~token
        /\ toasts' = Toast("Authentication Error", "Please log in to send messages.")
        /\ UNCHANGED <<now, token, selectedModel, availableModels, messages, inputValue,
                       uploadedFiles, isLoading, abortControllerRef, turns>>
     \/ /\ ~SendGuardFails
        /\ token
        /\ Len(turns) < cap
        /\ LET isReasoningModel == IsReasoningModel(availableModels, selectedModel) IN
             /\ messages' = messages \o <<UserMessage(t1), AiMessage(t2, isReasoningModel)>>
             /\ turns' = Append(turns, NewTurn(t2 + 1, isReasoningModel))
        /\ now' = t2
        /\ inputValue' = <<>>
        /\ uploadedFiles' = <<>>
        /\ isLoading' = TRUE
        /\ abortControllerRef' = Len(turns) + 1
        /\ UNCHANGED <<token, selectedModel, availableModels, toasts>>
  /\ UNCHANGED tokVars

handleSendMessage(t1, t2) == handleSendMessageWithin(MaxTurns, t1, t2)

(***************************************************************************)
(* The transcript updates setMessages(prev => prev.map(...))               *)
(***************************************************************************)
PatchReasoning(msgs, id, text) ==
  [i \in 1..Len(msgs) |->
     IF msgs[i].id = id THEN [msgs[i] EXCEPT !.reasoning = JSString(text)] ELSE msgs[i]]

PatchReasoningComplete(msgs, id) ==
  [i \in 1..Len(msgs) |->
     IF msgs[i].id = id THEN [msgs[i] EXCEPT !.isReasoningComplete = TRUE] ELSE msgs[i]]

PatchContent(msgs, id, text) ==
  [i \in 1..Len(msgs) |->
     IF msgs[i].id = id THEN [msgs[i] EXCEPT !.content = text] ELSE msgs[i]]

PatchMetadata(msgs, id, data) ==
  [i \in 1..Len(msgs) |->
     IF msgs[i].id = id THEN [msgs[i] EXCEPT !.metadata = data] ELSE msgs[i]]

\* Mutant of PatchComplete: only the streaming flag is cleared.
PatchCompleteStreamingOnly(msgs, id) ==
  [i \in 1..Len(msgs) |->
     IF msgs[i].id = id THEN [msgs[i] EXCEPT !.isStreaming = FALSE] ELSE msgs[i]]

\* Lines 335-341, after the read loop.
PatchComplete(msgs, id) ==
  [i \in 1..Len(msgs) |->
     IF msgs[i].id = id
     THEN [msgs[i] EXCEPT !.isStreaming = FALSE, !.isReasoningComplete = TRUE]
     ELSE msgs[i]]

\* Mutant of PatchError: the accumulated text is kept.
PatchErrorKeepsContent(msgs, id) ==
  [i \in 1..Len(msgs) |->
     IF msgs[i].id = id THEN [msgs[i] EXCEPT !.isStreaming = FALSE] ELSE msgs[i]]

\* Lines 371-381, in the catch block.
PatchError(msgs, id) ==
  [i \in 1..Len(msgs) |->
     IF msgs[i].id = id
     THEN [msgs[i] EXCEPT !.content = ErrorContent, !.isStreaming = FALSE]
     ELSE msgs[i]]

\* Lines 169-180, in handleCancelRequest: the last message, by position.
PatchCancelled(msgs) ==
  [i \in 1..Len(msgs) |->
     IF i = Len(msgs) /\ msgs[i].role = "assistant" /\ msgs[i].isStreaming
     THEN [msgs[i] EXCEPT !.content = msgs[i].content \o CancelNotice,
                          !.isStreaming = FALSE, !.isReasoningComplete = TRUE]
     ELSE msgs[i]]

(***************************************************************************)
(* The read loop of handleSendMessage (lines 279-329)                      *)
(***************************************************************************)
\* Mutant of ReadStep: the carried remainder is not prepended to the chunk.
ReadStepNoCarry(buffer, chunk) == parseJSONStream(chunk)

\* buffer += chunk; parseJSONStream(buffer)
ReadStep(buffer, chunk) == parseJSONStream(buffer \o chunk)

\* Mutant of ApplyParsedChunk: a content event stores its own delta.
ApplyParsedChunkLastDelta(st, parsedChunk) ==
  LET t == st.turn
      type == Get(parsedChunk, TypeKey)
      data == Get(parsedChunk, DataKey)
  IN
    IF type = JSString(TypeReasoning) THEN
      LET acc == t.accumulatedReasoning \o JSToString(data) IN
        [msgs |-> PatchReasoning(st.msgs, t.aiMessageId, acc),
         turn |-> [t EXCEPT !.accumulatedReasoning = acc]]
    ELSE IF type = JSString(TypeContent) THEN
      LET acc == t.accumulatedContent \o JSToString(data)
          m1 == IF t.isReasoningPhase
                THEN PatchReasoningComplete(st.msgs, t.aiMessageId)
                ELSE st.msgs
      IN
        [msgs |-> PatchContent(m1, t.aiMessageId, JSToString(data)),
         turn |-> [t EXCEPT
                     !.accumulatedContent = acc,
                     !.isReasoningPhase = FALSE,
                     !.reasoningCompleteUpdates =
                        IF t.isReasoningPhase THEN @ + 1 ELSE @]]
    ELSE IF type = JSString(TypeMetadata) THEN
      [msgs |-> PatchMetadata(st.msgs, t.aiMessageId, data), turn |-> t]
    ELSE st

\* Mutant of ApplyParsedChunk: an object of any other type is taken as content.
ApplyParsedChunkUnknownAsContent(st, parsedChunk) ==
  LET t == st.turn
      type == Get(parsedChunk, TypeKey)
      data == Get(parsedChunk, DataKey)
  IN
    IF type = JSString(TypeReasoning) THEN
      LET acc == t.accumulatedReasoning \o JSToString(data) IN
        [msgs |-> PatchReasoning(st.msgs, t.aiMessageId, acc),
         turn |-> [t EXCEPT !.accumulatedReasoning = acc]]
    ELSE IF type = JSString(TypeMetadata) THEN
      [msgs |-> PatchMetadata(st.msgs, t.aiMessageId, data), turn |-> t]
    ELSE
      LET acc == t.accumulatedContent \o JSToString(data)
          m1 == IF t.isReasoningPhase
                THEN PatchReasoningComplete(st.msgs, t.aiMessageId)
                ELSE st.msgs
      IN
        [msgs |-> PatchContent(m1, t.aiMessageId, acc),
         turn |-> [t EXCEPT
                     !.accumulatedContent = acc,
                     !.isReasoningPhase = FALSE,
                     !.reasoningCompleteUpdates =
                        IF t.isReasoningPhase THEN @ + 1 ELSE @]]

\* Mutant of ApplyParsedChunk: isReasoningPhase is not cleared by a content
\* event, so every content event repeats the reasoning-complete update.
ApplyParsedChunkNoPhaseFlip(st, parsedChunk) ==
  LET t == st.turn
      type == Get(parsedChunk, TypeKey)
      data == Get(parsedChunk, DataKey)
  IN
    IF type = JSString(TypeReasoning) THEN
      LET acc == t.accumulatedReasoning \o JSToString(data) IN
        [msgs |-> PatchReasoning(st.msgs, t.aiMessageId, acc),
         turn |-> [t EXCEPT !.accumulatedReasoning = acc]]
    ELSE IF type = JSString(TypeContent) THEN
      LET acc == t.accumulatedContent \o JSToString(data)
          m1 == IF t.isReasoningPhase
                THEN PatchReasoningComplete(st.msgs, t.aiMessageId)
                ELSE st.msgs
      IN
        [msgs |-> PatchContent(m1, t.aiMessageId, acc),
         turn |-> [t EXCEPT
                     !.accumulatedContent = acc,
                     !.reasoningCompleteUpdates =
                        IF t.isReasoningPhase THEN @ + 1 ELSE @]]
    ELSE IF type = JSString(TypeMetadata) THEN
      [msgs |-> PatchMetadata(st.msgs, t.aiMessageId, data), turn |-> t]
    ELSE st

\* The body of the for loop over parsed (lines 291-327) for one object; st
\* holds the transcript (msgs) and the invocation's locals (turn).
ApplyParsedChunk(st, parsedChunk) ==
  LET t == st.turn
      type == Get(parsedChunk, TypeKey)
      data == Get(parsedChunk, DataKey)
  IN
    IF type = JSString(TypeReasoning) THEN
      LET acc == t.accumulatedReasoning \o JSToString(data) IN
        [msgs |-> PatchReasoning(st.msgs, t.aiMessageId, acc),
         turn |-> [t EXCEPT !.accumulatedReasoning = acc]]
    ELSE IF type = JSString(TypeContent) THEN
      LET acc == t.accumulatedContent \o JSToString(data)
          m1 == IF t.isReasoningPhase
                THEN PatchReasoningComplete(st.msgs, t.aiMessageId)
                ELSE st.msgs
      IN
        [msgs |-> PatchContent(m1, t.aiMessageId, acc),
         turn |-> [t EXCEPT
                     !.accumulatedContent = acc,
                     !.isReasoningPhase = FALSE,
                     !.reasoningCompleteUpdates =
                        IF t.isReasoningPhase THEN @ + 1 ELSE @]]
    ELSE IF type = JSString(TypeMetadata) THEN
      [msgs |-> PatchMetadata(st.msgs, t.aiMessageId, data), turn |-> t]
    ELSE st

\* for (const parsedChunk of parsed) { ... }
RECURSIVE ApplyParsed(_, _, _)
ApplyParsed(st, parsed, i) ==
  IF i > Len(parsed) THEN st
  ELSE ApplyParsed(ApplyParsedChunk(st, parsed[i]), parsed, i + 1)

\* Mutant of Finally: the cancellation token is not released.
FinallyKeepsToken ==
  /\ isLoading' = FALSE
  /\ UNCHANGED abortControllerRef

\* The finally block of handleSendMessage (lines 382-385).
Finally ==
  /\ isLoading' = FALSE
  /\ abortControllerRef' = 0

\* error.message as matched by the includes(...) chain of lines 350-363.
ErrorMessage(message) ==
  CASE message = "Failed to fetch" ->
         "Unable to connect to server. Please check your connection."
    [] message = "401" -> "Authentication failed. Please log in again."
    [] message = "403" -> "Access denied. Please check your permissions."
    [] message = "404" -> "Chat endpoint not found. Please check server configuration."
    [] message = "500" -> "Server error. Please try again later."
    [] OTHER -> "Failed to send message. Please try again."

\* The catch block for an error that is not an AbortError, then finally.
CatchError(t, message) ==
  /\ toasts' = Toast("Error", ErrorMessage(message))
  /\ messages' = PatchError(messages, turns[t].aiMessageId)
  /\ turns' = [turns EXCEPT ![t] = EndTurn(@, "error")]
  /\ Finally

\* Mutant of Complete: what is left in the buffer is shown as text.
CompleteFlushesBuffer(t) ==
  /\ messages' = PatchComplete(
                    PatchContent(messages, turns[t].aiMessageId,
                                 turns[t].accumulatedContent \o turns[t].buffer),
                    turns[t].aiMessageId)
  /\ turns' = [turns EXCEPT ![t] = EndTurn(@, "complete")]
  /\ Finally
  /\ UNCHANGED toasts

\* Lines 335-341 and finally: the stream ended, or there was no body.
Complete(t) ==
  /\ messages' = PatchComplete(messages, turns[t].aiMessageId)
  /\ turns' = [turns EXCEPT ![t] = EndTurn(@, "complete")]
  /\ Finally
  /\ UNCHANGED toasts

Awaiting(t, pc) ==
  /\ ~MicrotaskPending
  /\ turns[t].pc = pc
  /\ ~turns[t].aborted

(***************************************************************************)
(* Network events and the continuations they resume                        *)
(***************************************************************************)
\* HTTP statuses of a response that is not ok.
Statuses == {"401", "503"}

\* await fetch(...) resolves with a response.
FetchResolves(t, ok, hasBody, sc) ==
  /\ Awaiting(t, "fetch")
  /\ \/ /\ ok /\ hasBody
        /\ turns' = [turns EXCEPT ![t].pc = "read", ![t].script = sc]
        /\ UNCHANGED <<messages, isLoading, abortControllerRef, toasts>>
     \/ /\ ok /\ ~hasBody
        /\ Complete(t)
     \/ /\ ~ok
        /\ turns' = [turns EXCEPT ![t].pc = "text"]
        /\ UNCHANGED <<messages, isLoading, abortControllerRef, toasts>>
  /\ UNCHANGED <<now, token, selectedModel, availableModels, inputValue,
                 uploadedFiles, tokVars>>

\* await fetch(...) rejects with a TypeError.
FetchRejects(t, message) ==
  /\ Awaiting(t, "fetch")
  /\ CatchError(t, message)
  /\ UNCHANGED <<now, token, selectedModel, availableModels, inputValue,
                 uploadedFiles, tokVars>>

\* await response.text() resolves and the handler throws the HTTP error, whose
\* message carries the status.
TextSettles(t, message) ==
  /\ Awaiting(t, "text")
  /\ CatchError(t, message)
  /\ UNCHANGED <<now, token, selectedModel, availableModels, inputValue,
                 uploadedFiles, tokVars>>

\* The next n characters of the body, cut where the network cuts.
CanCut(t, n) ==
  LET total == Len(Body(turns[t].script))
      to == turns[t].sent + n
  IN n >= 1 /\ to <= total /\ (to % ChunkUnit = 0 \/ to = total)

\* await reader.read() resolves with a chunk: one iteration of the while loop.
ReadChunk(t, n) ==
  /\ Awaiting(t, "read")
  /\ CanCut(t, n)
  /\ LET tn == turns[t]
         chunk == SubSeq(Body(tn.script), tn.sent + 1, tn.sent + n)
         r == ReadStep(tn.buffer, chunk)
         st == ApplyParsed([msgs |-> messages,
                            turn |-> [tn EXCEPT !.buffer = r.remaining,
                                                !.sent = tn.sent + n]],
                           r.parsed, 1)
     IN /\ messages' = st.msgs
        /\ turns' = [turns EXCEPT ![t] = st.turn]
  /\ UNCHANGED <<now, token, selectedModel, availableModels, inputValue,
                 uploadedFiles, isLoading, abortControllerRef, toasts, tokVars>>

\* await reader.read() resolves with done.
ReadDone(t) ==
  /\ Awaiting(t, "read")
  /\ turns[t].sent = Len(Body(turns[t].script))
  /\ Complete(t)
  /\ UNCHANGED <<now, token, selectedModel, availableModels, inputValue,
                 uploadedFiles, tokVars>>

\* await reader.read() rejects with a TypeError.
ReadFails(t) ==
  /\ Awaiting(t, "read")
  /\ CatchError(t, "network error")
  /\ UNCHANGED <<now, token, selectedModel, availableModels, inputValue,
                 uploadedFiles, tokVars>>

\* Mutant of AbortContinuation: the AbortError is handled like any error.
AbortContinuationAsError(t) ==
  /\ turns[t].pc # "ended"
  /\ turns[t].aborted
  /\ CatchError(t, "AbortError")
  /\ UNCHANGED <<now, token, selectedModel, availableModels, inputValue,
                 uploadedFiles, tokVars>>

\* The awaited promise of an aborted request rejects with an AbortError: the
\* catch block returns at line 347 and the finally block runs.
AbortContinuation(t) ==
  /\ turns[t].pc # "ended"
  /\ turns[t].aborted
  /\ turns' = [turns EXCEPT ![t] = EndTurn(@, "aborted")]
  /\ Finally
  /\ UNCHANGED <<now, token, selectedModel, availableModels, messages, inputValue,
                 uploadedFiles, toasts, tokVars>>

(***************************************************************************)
(* Cancel and page unload                                                  *)
(***************************************************************************)
\* abortControllerRef.current.abort()
Abort(ref) == [turns EXCEPT ![ref].aborted = TRUE]

handleCancelRequest ==
  /\ \/ /\ abortControllerRef # 0
        /\ turns' = [Abort(abortControllerRef) EXCEPT ![abortControllerRef].cancelled = TRUE]
        /\ abortControllerRef' = 0
        /\ isLoading' = FALSE
        /\ messages' = PatchCancelled(messages)
        /\ toasts' = Toast("Request Cancelled",
                           "The response generation has been stopped.")
     \/ /\ abortControllerRef = 0
        /\ UNCHANGED <<turns, abortControllerRef, isLoading, messages, toasts>>
  /\ UNCHANGED <<now, token, selectedModel, availableModels, inputValue,
                 uploadedFiles, tokVars>>

\* The beforeunload listener, when the page stays (the navigation is
\* cancelled or becomes a download).
handleBeforeUnload ==
  /\ \/ /\ abortControllerRef # 0
        /\ turns' = Abort(abortControllerRef)
     \/ /\ abortControllerRef = 0
        /\ UNCHANGED turns
  /\ UNCHANGED <<now, token, selectedModel, availableModels, messages, inputValue,
                 uploadedFiles, isLoading, abortControllerRef, toasts, tokVars>>

\* The kinds of attachment the user adds.
FileKinds == {"image"}

\* The values Date.now() may return to the next send: later than the last
\* reading (a send follows user input after the previous send).  The origin
\* of the clock is immaterial, so the first reading is fixed.
ClockReadings ==
  IF turns = <<>> THEN {now + 1} ELSE (now + 1)..(now + MaxElapsed)

Next ==
  \/ \E v \in Inputs : SetInputValue(v)
  \/ \E kind \in FileKinds : handleFileAdded(kind)
  \/ \E t1 \in ClockReadings : handleSendMessage(t1, t1)
  \/ handleCancelRequest
  \/ handleBeforeUnload
  \/ \E t \in 1..Len(turns) : \E ok \in BOOLEAN, hasBody \in BOOLEAN, sc \in 1..Len(Scripts) :
       FetchResolves(t, ok, hasBody, sc)
  \/ \E t \in 1..Len(turns) : \E message \in {"Failed to fetch"} : FetchRejects(t, message)
  \/ \E t \in 1..Len(turns) : \E message \in Statuses : TextSettles(t, message)
  \/ \E t \in 1..Len(turns) : \E n \in 1..Len(Body(turns[t].script)) : ReadChunk(t, n)
  \/ \E t \in 1..Len(turns) : ReadDone(t)
  \/ \E t \in 1..Len(turns) : ReadFails(t)
  \/ \E t \in 1..Len(turns) : AbortContinuation(t)

Spec == Init /\ [][Next]_vars

(***************************************************************************)
(* The page with a loaded model catalog whose selected model reasons.      *)
(* ChatPage itself never calls setAvailableModels or setSelectedModel, so  *)
(* under Spec every turn is created for a model without reasoning; this    *)
(* specification starts from the state a populated catalog would give.     *)
(***************************************************************************)
Catalog ==
  << [id |-> "m1", provider |-> "google", isReasoning |-> FALSE],
     [id |-> "m2", provider |-> "google", isReasoning |-> TRUE] >>

InitCatalog ==
  /\ now = 0
  /\ token = TRUE
  /\ selectedModel = "m2"
  /\ availableModels = Catalog
  /\ messages = <<>>
  /\ inputValue = <<>>
  /\ uploadedFiles = <<>>
  /\ isLoading = FALSE
  /\ abortControllerRef = 0
  /\ toasts = <<>>
  /\ turns = <<>>
  /\ InitTokIdle

SpecCatalog == InitCatalog /\ [][Next]_vars

(***************************************************************************)
(* Overlapping turns: the page in an environment where the user types one  *)
(* text, every request is answered 200 with the first scripted body and    *)
(* the network does not fail, for up to MaxOverlapTurns turns.             *)
(***************************************************************************)
InitOverlap ==
  /\ InitChat
  /\ token = TRUE
  /\ InitTokIdle

NextOverlap ==
  \/ SetInputValue(<<"h", "i">>)
  \/ \E t1 \in ClockReadings : handleSendMessageWithin(MaxOverlapTurns, t1, t1)
  \/ handleCancelRequest
  \/ \E t \in 1..Len(turns) : FetchResolves(t, TRUE, TRUE, 1)
  \/ \E t \in 1..Len(turns) : \E n \in 1..Len(Body(turns[t].script)) : ReadChunk(t, n)
  \/ \E t \in 1..Len(turns) : ReadDone(t)
  \/ \E t \in 1..Len(turns) : AbortContinuation(t)

SpecOverlap == InitOverlap /\ [][NextOverlap]_vars

(***************************************************************************)
(* Tokenizer runs: a text is fed to the read loop's tokenizing step chunk  *)
(* by chunk, for every way of cutting it.                                  *)
(***************************************************************************)
EmptyObject == JSObject(<<>>)

NestedObject ==
  JSObject(<< <<<<"a">>, JSObject(<< <<<<"b">>, JSString(<<"c">>)>> >>)>> >>)

BracesInStrings == JSObject(<< <<<<"}">>, JSString(<<"{">>)>> >>)

EscapesInString == JSObject(<< <<<<"q">>, JSString(<<"\"", "}", "\\">>)>> >>)

Fragments ==
  { Item(EmptyObject), Item(NestedObject), Item(BracesInStrings),
    Item(EscapesInString),
    Junk(<<"{", "a", "}">>), Junk(<<"}">>), Junk(<<"\"">>), Junk(<<"\\">>),
    Junk(<<"{", "\"", "a">>) }

TokText == Flatten(ItemTexts(tokFrags))

\* The part of the text fed so far.
TokFed == SubSeq(TokText, 1, Len(TokText) - Len(tokRest))

InitTok ==
  /\ now = 0
  /\ token = TRUE
  /\ selectedModel = ""
  /\ availableModels = <<>>
  /\ messages = <<>>
  /\ inputValue = <<>>
  /\ uploadedFiles = <<>>
  /\ isLoading = FALSE
  /\ abortControllerRef = 0
  /\ toasts = <<>>
  /\ turns = <<>>
  /\ tokFrags \in UNION {[1..n -> Fragments] : n \in 0..MaxFrags}
  /\ tokRest = TokText
  /\ tokBuffer = <<>>
  /\ tokEmitted = <<>>
  /\ tokCarried = FALSE

\* One iteration of the read loop on a chunk of n characters (lines 284-288).
TokFeed(n) ==
  /\ n >= 1 /\ n <= Len(tokRest)
  /\ LET r == ReadStep(tokBuffer, SubSeq(tokRest, 1, n)) IN
       /\ tokEmitted' = tokEmitted \o r.parsed
       /\ tokBuffer' = r.remaining
  /\ tokRest' = SubSeq(tokRest, n + 1, Len(tokRest))
  /\ tokCarried' = (tokCarried \/ tokBuffer # <<>>)
  /\ UNCHANGED <<tokFrags, chatVars>>

NextTok == \E n \in 1..Len(tokRest) : TokFeed(n)

SpecTok == InitTok /\ [][NextTok]_vars

(***************************************************************************)
(* What a body should yield, computed from its items (not by the           *)
(* tokenizer): the objects of the complete well-formed items.              *)
(***************************************************************************)
RECURSIVE ValidEvents(_, _)
ValidEvents(items, i) ==
  IF i > Len(items) THEN <<>>
  ELSE (IF items[i].valid THEN <<items[i].ev>> ELSE <<>>) \o ValidEvents(items, i + 1)

\* The number of leading items that lie wholly within the first n characters.
RECURSIVE ItemsWithin(_, _, _)
ItemsWithin(items, i, n) ==
  IF i > Len(items) \/ Len(items[i].text) > n THEN 0
  ELSE 1 + ItemsWithin(items, i + 1, n - Len(items[i].text))

\* The concatenated data of the events of one type among the first k items.
RECURSIVE DataOfType(_, _, _, _)
DataOfType(items, type, i, k) ==
  IF i > k THEN <<>>
  ELSE (IF items[i].valid /\ Get(items[i].ev, TypeKey) = JSString(type)
        THEN Get(items[i].ev, DataKey).s ELSE <<>>)
       \o DataOfType(items, type, i + 1, k)

\* The data of the last metadata event among the first k items.
RECURSIVE LastMetadata(_, _)
LastMetadata(items, k) ==
  IF k = 0 THEN JSUndefined
  ELSE IF items[k].valid /\ Get(items[k].ev, TypeKey) = JSString(TypeMetadata)
  THEN Get(items[k].ev, DataKey)
  ELSE LastMetadata(items, k - 1)

AllValid(items) == \A i \in 1..Len(items) : items[i].valid

EndsWith(s, suffix) ==
  Len(s) >= Len(suffix) /\ SubSeq(s, Len(s) - Len(suffix) + 1, Len(s)) = suffix

\* The assistant message of turn t: each started turn appends two messages.
MsgOf(t) == messages[2 * t]

(***************************************************************************)
(* C1: for every text and every way of cutting it into consecutive chunks, *)
(* the read loop's chunk-by-chunk tokenizing (carried remainder + chunk,   *)
(* keep the returned remainder) has emitted the same ordered list of       *)
(* objects, and holds the same remainder, as one parseJSONStream call on   *)
(* the text fed so far; at the end that text is the whole input.           *)
(***************************************************************************)
C1_ChunkedEqualsWhole ==
  LET whole == parseJSONStream(TokFed) IN
    /\ tokEmitted = whole.parsed
    /\ tokBuffer = whole.remaining

\* The whole text was fed in several chunks, a cut fell inside an object, and
\* objects were emitted before and after the cut.
C1_Witness ==
  /\ tokRest = <<>>
  /\ tokCarried
  /\ Len(tokEmitted) >= 2
  /\ tokBuffer # <<>>
  /\ C1_ChunkedEqualsWhole

(***************************************************************************)
(* C5: a candidate whose braces balance outside strings but which is not   *)
(* JSON is dropped, and every well-formed object before and after it is    *)
(* emitted, in order and unchanged: a text made of well-formed objects and *)
(* malformed balanced candidates yields exactly the well-formed objects.   *)
(***************************************************************************)
BalancedBad(item) == item.text = <<"{", "a", "}">>

C5_MalformedObjectIsolated ==
  (/\ tokRest = <<>>
   /\ \A i \in 1..Len(tokFrags) : tokFrags[i].valid \/ BalancedBad(tokFrags[i]))
  => /\ tokEmitted = ValidEvents(tokFrags, 1)
     /\ tokBuffer = <<>>

\* valid object, {a}, valid object: exactly the two valid objects came out.
C5_Witness ==
  /\ tokRest = <<>>
  /\ Len(tokFrags) = 3
  /\ tokFrags[1].valid /\ BalancedBad(tokFrags[2]) /\ tokFrags[3].valid
  /\ tokFrags[1] # tokFrags[3]
  /\ tokEmitted = <<tokFrags[1].ev, tokFrags[3].ev>>

(***************************************************************************)
(* C10: object boundaries fall exactly where the brace depth outside       *)
(* strings returns to zero.  For a text of well-formed objects (with       *)
(* braces, escaped quotes and escaped backslashes inside strings, and      *)
(* nested object values), after any prefix has been fed the objects        *)
(* emitted are exactly the items that lie wholly in the prefix, each as    *)
(* one object, and the remainder is the fed part of the next item.         *)
(***************************************************************************)
C10_BoundariesAtDepthZero ==
  AllValid(tokFrags) =>
    LET k == ItemsWithin(tokFrags, 1, Len(TokFed)) IN
      /\ tokEmitted = [i \in 1..k |-> tokFrags[i].ev]
      /\ tokBuffer = SubSeq(TokFed, Len(Flatten(ItemTexts(SubSeq(tokFrags, 1, k)))) + 1,
                            Len(TokFed))

\* The nested object and the strings with braces and escapes were each
\* emitted as one object.
C10_Witness ==
  /\ tokRest = <<>>
  /\ tokFrags = <<Item(EscapesInString), Item(NestedObject), Item(BracesInStrings)>>
  /\ Len(tokEmitted) = 3
  /\ tokBuffer = <<>>

(***************************************************************************)
(* Claims about the turn                                                   *)
(***************************************************************************)
Turns == 1..Len(turns)

InFlight(t) == turns[t].pc # "ended"

\* The number of events of one type among the first k items.
RECURSIVE CountOfType(_, _, _, _)
CountOfType(items, type, i, k) ==
  IF i > k THEN 0
  ELSE (IF items[i].valid /\ Get(items[i].ev, TypeKey) = JSString(type) THEN 1 ELSE 0)
       + CountOfType(items, type, i + 1, k)

ContentAndMetadataOnly(items) ==
  \A i \in 1..Len(items) :
    /\ items[i].valid
    /\ Get(items[i].ev, TypeKey) \in {JSString(TypeContent), JSString(TypeMetadata)}

CancelledShape(msg) ==
  /\ msg.isStreaming = FALSE
  /\ msg.isReasoningComplete = TRUE
  /\ EndsWith(msg.content, CancelNotice)

(***************************************************************************)
(* C2: once the user has cancelled a turn, its assistant message has       *)
(* isStreaming = FALSE, isReasoningComplete = TRUE and content ending in   *)
(* the cancellation notice, and no later step changes that message: no     *)
(* event, end-of-stream or error update of the cancelled turn is applied.  *)
(***************************************************************************)
C2_CancelledMessageFrozen ==
  [][\A t \in 1..Len(turns') :
       turns'[t].cancelled =>
         /\ CancelledShape(messages'[2 * t])
         /\ (t <= Len(turns) /\ turns[t].cancelled) => messages'[2 * t] = messages[2 * t]
    ]_vars

\* A turn was cancelled after content had streamed in, its invocation has
\* ended, and a later turn is applying events of its own stream.
C2_Witness ==
  \E t \in Turns : \E u \in Turns :
    /\ turns[t].cancelled /\ turns[t].pc = "ended"
    /\ Len(MsgOf(t).content) > Len(CancelNotice)
    /\ CancelledShape(MsgOf(t))
    /\ u > t /\ turns[u].pc = "read" /\ MsgOf(u).content # <<>>

(***************************************************************************)
(* C3: every step by which a started turn ends (end of stream, non-2xx     *)
(* response, fetch failure, failure while reading the body, the return on  *)
(* an abort) or is cancelled by the user leaves isLoading = FALSE and      *)
(* abortControllerRef = null.                                              *)
(***************************************************************************)
C3_EveryEndReleases ==
  [][\A t \in Turns :
       (/\ InFlight(t)
        /\ \/ turns'[t].pc = "ended"
           \/ turns'[t].cancelled /\ ~turns[t].cancelled)
       => (isLoading' = FALSE /\ abortControllerRef' = 0)
    ]_vars

\* Two turns have ended, one by an error and one normally.
C3_Witness ==
  /\ Len(turns) = 2
  /\ turns[1].outcome = "error"
  /\ turns[2].outcome = "complete"
  /\ ~isLoading
  /\ abortControllerRef = 0

(***************************************************************************)
(* C4: while a turn is in flight (its request not aborted, its invocation  *)
(* not returned) no step appends a message, starts a turn or creates a     *)
(* cancellation token, and at most one turn is in flight at any time.      *)
(***************************************************************************)
Active(t) == turns[t].pc # "ended" /\ ~turns[t].aborted

C4_SendRejectedInFlight ==
  [][/\ (\E t \in Turns : Active(t)) =>
          /\ Len(messages') = Len(messages)
          /\ Len(turns') = Len(turns)
          /\ abortControllerRef' \in {abortControllerRef, 0}
     /\ Cardinality({t \in 1..Len(turns') :
                       turns'[t].pc # "ended" /\ ~turns'[t].aborted}) <= 1
    ]_vars

(***************************************************************************)
(* C7: while a turn is streaming, the stored content of its message is the *)
(* concatenation, in arrival order, of the data of the content events      *)
(* received so far, and the stored reasoning that of the reasoning events. *)
(***************************************************************************)
C7_CumulativeAccumulation ==
  \A t \in Turns :
    (turns[t].pc = "read" /\ ~turns[t].cancelled) =>
      LET items == Scripts[turns[t].script]
          k == ItemsWithin(items, 1, turns[t].sent)
      IN
        /\ MsgOf(t).content = DataOfType(items, TypeContent, 1, k)
        /\ MsgOf(t).reasoning =
             IF CountOfType(items, TypeReasoning, 1, k) = 0 /\ ~turns[t].isReasoningModel
             THEN JSUndefined
             ELSE JSString(DataOfType(items, TypeReasoning, 1, k))

\* Two content events and two reasoning events have been applied.
C7_Witness ==
  \E t \in Turns :
    /\ turns[t].pc = "read" /\ ~turns[t].cancelled
    /\ MsgOf(t).content = <<"a", "b">>
    /\ MsgOf(t).reasoning = JSString(<<"r", "{", "\"">>)

C9_FinalMessage ==
  \A t \in Turns :
    (/\ turns[t].outcome = "complete"
     /\ ~turns[t].isReasoningModel
     /\ turns[t].script # 0
     /\ ContentAndMetadataOnly(Scripts[turns[t].script]))
    => LET items == Scripts[turns[t].script] IN
         /\ MsgOf(t).content = DataOfType(items, TypeContent, 1, Len(items))
         /\ MsgOf(t).isStreaming = FALSE
         /\ MsgOf(t).isReasoningComplete = TRUE
         /\ MsgOf(t).metadata = LastMetadata(items, Len(items))

\* The stream "Hi", usage 5, " }", usage 7 has ended normally.
C9_Witness ==
  \E t \in Turns :
    /\ turns[t].outcome = "complete"
    /\ ~turns[t].isReasoningModel
    /\ turns[t].script = 1
    /\ MsgOf(t).content = <<"H", "i", " ", "}">>
    /\ MsgOf(t).metadata = Usage("7")

(***************************************************************************)
(* C6: in a reasoning-enabled turn a reasoning event changes only the      *)
(* reasoning field of the turn's message; until the first content event    *)
(* the content is empty and isReasoningComplete is FALSE; the first        *)
(* content event sets isReasoningComplete, that update runs once however   *)
(* many content events follow, and the flag never returns to FALSE.        *)
(***************************************************************************)
SampleReasoningEvent == WireEvent(TypeReasoning, JSString(<<"z">>))

C6_State ==
  \A t \in Turns :
    (turns[t].isReasoningModel /\ turns[t].pc = "read" /\ ~turns[t].cancelled) =>
      /\ turns[t].isReasoningPhase =>
           /\ MsgOf(t).content = <<>>
           /\ MsgOf(t).isReasoningComplete = FALSE
           /\ turns[t].reasoningCompleteUpdates = 0
      /\ ~turns[t].isReasoningPhase =>
           /\ MsgOf(t).isReasoningComplete = TRUE
           /\ turns[t].reasoningCompleteUpdates = 1
      /\ LET st == ApplyParsedChunk([msgs |-> messages, turn |-> turns[t]],
                                    SampleReasoningEvent)
         IN st.msgs[2 * t] =
              [MsgOf(t) EXCEPT
                 !.reasoning = JSString(turns[t].accumulatedReasoning \o <<"z">>)]

C6_ReasoningThenContent ==
  [][/\ C6_State'
     /\ \A t \in Turns :
          (turns[t].isReasoningModel /\ MsgOf(t).isReasoningComplete)
          => messages'[2 * t].isReasoningComplete
    ]_vars

\* A reasoning-enabled turn has applied reasoning events and two content events.
C6_Witness ==
  \E t \in Turns :
    /\ turns[t].isReasoningModel
    /\ turns[t].pc = "read"
    /\ turns[t].reasoningCompleteUpdates = 1
    /\ MsgOf(t).content = <<"a", "b">>
    /\ MsgOf(t).reasoning = JSString(<<"r", "{", "\"">>)
    /\ MsgOf(t).isReasoningComplete

(***************************************************************************)
(* C11: the reasoning field of a turn's assistant message is present       *)
(* exactly when the turn was created as reasoning-enabled.                 *)
(***************************************************************************)
C11_ReasoningIffReasoningTurn ==
  \A t \in Turns : (MsgOf(t).reasoning # JSUndefined) <=> turns[t].isReasoningModel

(***************************************************************************)
(* C12: no two messages of the transcript have the same id.                *)
(***************************************************************************)
C12_IdsUnique ==
  \A i \in 1..Len(messages) : \A j \in 1..Len(messages) :
    i # j => messages[i].id # messages[j].id

(***************************************************************************)
(* C15: the step in which a turn's invocation returns leaves the           *)
(* cancellation token and the loading indicator as they are while another  *)
(* turn is in flight, and the token never refers to an ended turn.         *)
(***************************************************************************)
C15_CleanupReleasesOwnToken ==
  [][/\ \A t \in Turns :
          (InFlight(t) /\ turns'[t].pc = "ended") =>
            \A u \in Turns :
              (u # t /\ Active(u)) =>
                /\ abortControllerRef' = abortControllerRef
                /\ isLoading' = isLoading
     /\ abortControllerRef' # 0 => turns'[abortControllerRef'].pc # "ended"
    ]_vars

(***************************************************************************)
(* C18: a step that changes messages of the transcript changes only the    *)
(* assistant message of one turn in flight, and the transcript grows only  *)
(* by the user message and the assistant message appended at a turn's      *)
(* start, the earlier messages staying in place.                           *)
(***************************************************************************)
Changed(i) == messages'[i] # messages[i]

C18_OnlyOwnMessagePatched ==
  [][\/ /\ Len(messages') = Len(messages)
        /\ \/ \A i \in 1..Len(messages) : ~Changed(i)
           \/ \E t \in Turns :
                /\ InFlight(t)
                /\ \A i \in 1..Len(messages) : Changed(i) => i = 2 * t
     \/ /\ Len(messages') = Len(messages) + 2
        /\ Len(turns') = Len(turns) + 1
        /\ \A i \in 1..Len(messages) : ~Changed(i)
        /\ messages'[Len(messages) + 1].role = "user"
        /\ messages'[Len(messages) + 2].role = "assistant"
    ]_vars

(***************************************************************************)
(* C13: a send attempt with an empty trimmed input and no attachment, or   *)
(* without a credential, starts no request and leaves the transcript, the  *)
(* input, the attachments, isLoading and the cancellation token as they    *)
(* are; with an empty input it raises nothing, without a credential it     *)
(* raises the authentication notification and nothing else.                *)
(***************************************************************************)
EmptyInput == Trim(inputValue) = <<>> /\ uploadedFiles = <<>>

AuthToast ==
  [title |-> "Authentication Error", description |-> "Please log in to send messages."]

C13_InvalidSendChangesNothing ==
  [][((EmptyInput \/ ~token) /\ \E t1 \in ClockReadings : handleSendMessage(t1, t1)) =>
       /\ UNCHANGED <<messages, inputValue, uploadedFiles, isLoading,
                      abortControllerRef, turns, now, token>>
       /\ EmptyInput => UNCHANGED toasts
       /\ toasts' # toasts => toasts' = Append(toasts, AuthToast)
    ]_vars

\* A send without a credential raised the notification and left the typed
\* input and the empty transcript alone.
C13_Witness ==
  /\ ~token
  /\ toasts # <<>> /\ toasts[1] = AuthToast
  /\ inputValue = <<"h", "i">>
  /\ messages = <<>>
  /\ turns = <<>>
  /\ ~isLoading /\ abortControllerRef = 0

(***************************************************************************)
(* C14: a malformed fragment outside any object (a stray closing brace, an *)
(* unbalanced quote) or a malformed balanced candidate costs at most one   *)
(* object: of the well-formed objects of a text, all but at most one per   *)
(* malformed fragment are emitted once the text is fed.                    *)
(***************************************************************************)
StrayFragment(item) == item.text \in {<<"}">>, <<"\"">>}

C14_MalformedCostsOneObject ==
  (/\ tokRest = <<>>
   /\ \A i \in 1..Len(tokFrags) :
        tokFrags[i].valid \/ BalancedBad(tokFrags[i]) \/ StrayFragment(tokFrags[i]))
  => Len(tokEmitted) + Cardinality({i \in 1..Len(tokFrags) : ~tokFrags[i].valid})
       >= Cardinality({i \in 1..Len(tokFrags) : tokFrags[i].valid})

(***************************************************************************)
(* C16: a turn ended by an error (fetch failure, non-2xx response, failure *)
(* while reading the body) has the fixed error string as the content of    *)
(* its message, whatever had accumulated, and isStreaming = FALSE; the     *)
(* step that ends it raises exactly one notification, titled "Error".      *)
(***************************************************************************)
C16_ErrorReplacesContent ==
  [][\A t \in 1..Len(turns') :
       turns'[t].outcome = "error" =>
         /\ messages'[2 * t].content = ErrorContent
         /\ messages'[2 * t].isStreaming = FALSE
         /\ turns[t].outcome # "error" =>
              /\ Len(toasts') = Len(toasts) + 1
              /\ toasts'[Len(toasts')].title = "Error"
    ]_vars

\* The body failed after content and metadata had arrived: the metadata is
\* still on the message, the text is gone.
C16_Witness ==
  \E t \in Turns :
    /\ turns[t].outcome = "error"
    /\ MsgOf(t).metadata # JSUndefined
    /\ MsgOf(t).content = ErrorContent
    /\ MsgOf(t).isStreaming = FALSE
    /\ \E i \in 1..Len(toasts) : toasts[i].title = "Error"

(***************************************************************************)
(* C17: a turn the user cancelled never ends as an error: its message      *)
(* ends in the cancellation notice and never holds the error string, the   *)
(* step in which its invocation returns raises no notification, and no     *)
(* turn is both cancelled and ended by an error.                           *)
(***************************************************************************)
C17_CancelIsNotAnError ==
  [][\A t \in 1..Len(turns') :
       turns'[t].cancelled =>
         /\ turns'[t].outcome # "error"
         /\ messages'[2 * t].content # ErrorContent
         /\ EndsWith(messages'[2 * t].content, CancelNotice)
         /\ (t <= Len(turns) /\ turns[t].pc # "ended" /\ turns'[t].pc = "ended")
              => (toasts' = toasts /\ turns'[t].outcome = "aborted")
    ]_vars

\* A cancelled turn's invocation has returned and the only notification is
\* the one of the cancel handler.
C17_Witness ==
  /\ Len(turns) = 1
  /\ turns[1].cancelled /\ turns[1].outcome = "aborted"
  /\ Len(MsgOf(1).content) > Len(CancelNotice)
  /\ Len(toasts) = 1 /\ toasts[1].title = "Request Cancelled"

(***************************************************************************)
(* C19: while a turn reads its stream, an object of another type (or of no *)
(* type) changes neither the transcript nor the turn's locals, and a       *)
(* metadata event sets the metadata of the turn's message and nothing      *)
(* else; the events after an object of another type are applied as usual.  *)
(***************************************************************************)
SamplePingEvent == WireEvent(TypePing, JSString(<<"x">>))

SampleMetadataEvent == WireEvent(TypeMetadata, Usage("9"))

C19_OtherTypesIgnored ==
  \A t \in Turns :
    (turns[t].pc = "read" /\ ~turns[t].aborted) =>
      LET st == [msgs |-> messages, turn |-> turns[t]]
          items == Scripts[turns[t].script]
          k == ItemsWithin(items, 1, turns[t].sent)
      IN
        /\ ApplyParsedChunk(st, SamplePingEvent) = st
        /\ ApplyParsedChunk(st, EmptyObject) = st
        /\ LET after == ApplyParsedChunk(st, SampleMetadataEvent) IN
             /\ after.msgs[2 * t] = [MsgOf(t) EXCEPT !.metadata = Usage("9")]
             /\ after.turn = turns[t]
        /\ MsgOf(t).content = DataOfType(items, TypeContent, 1, k)
        /\ MsgOf(t).metadata = LastMetadata(items, k)

\* The stream with an object of type ping between two content events has
\* been read past the second of them.
C19_Witness ==
  \E t \in Turns :
    /\ turns[t].pc = "read" /\ ~turns[t].aborted
    /\ turns[t].script = 2
    /\ ItemsWithin(Scripts[2], 1, turns[t].sent) >= 6
    /\ Get(Scripts[2][5].ev, TypeKey) = JSString(TypePing)
    /\ MsgOf(t).content = <<"a", "b">>
    /\ MsgOf(t).metadata = JSUndefined

(***************************************************************************)
(* C20: when the stream ends while the buffer holds an incomplete object,  *)
(* the turn ends complete: the step raises no notification, clears         *)
(* isStreaming, sets isReasoningComplete and changes nothing else of the   *)
(* message, whose content is the text of the complete content events.      *)
(***************************************************************************)
C20_IncompleteTailDiscarded ==
  [][\A t \in Turns :
       (turns[t].buffer # <<>> /\ ReadDone(t)) =>
         LET items == Scripts[turns[t].script] IN
           /\ turns'[t].outcome = "complete"
           /\ toasts' = toasts
           /\ messages'[2 * t] = [messages[2 * t] EXCEPT !.isStreaming = FALSE,
                                                         !.isReasoningComplete = TRUE]
           /\ messages'[2 * t].content = DataOfType(items, TypeContent, 1, Len(items))
    ]_vars

\* The stream that ends inside a string of its last object has ended and the
\* message holds the text of the two complete content events.
C20_Witness ==
  \E t \in Turns :
    /\ turns[t].outcome = "complete"
    /\ turns[t].script = 2
    /\ ~Scripts[2][Len(Scripts[2])].valid
    /\ MsgOf(t).content = <<"a", "b">>
    /\ MsgOf(t).isStreaming = FALSE
    /\ MsgOf(t).isReasoningComplete = TRUE
    /\ toasts = <<>>

====
